---------------------------- MODULE Spec2Model ----------------------------
(***************************************************************************)
(* chtodoist: recurring-task templates, auto-complete rules, task watchers *)
(* and in-app notifications layered over the Todoist REST API.             *)
(*                                                                         *)
(* Time is counted in hours since an epoch that falls on a midnight (UTC). *)
(* The settings module is not part of the sources; the model takes         *)
(* USE_TZ = True and TIME_ZONE = UTC, so timezone.now() is an aware        *)
(* datetime and make_aware() attaches UTC.                                 *)
(*                                                                         *)
(* Handlers run to completion with respect to each other (one request      *)
(* thread, one batch invocation at a time); the batch command is a loop    *)
(* with one step per rule / template, and the clock may advance between    *)
(* steps and between the clock readings inside one step.                   *)
(***************************************************************************)
EXTENDS Integers, Sequences, FiniteSets, TLC

\* ------------------------------------------------------------------ bounds

\* Largest clock value (hours) the scheduler specifications explore.
MaxClock == 25
\* Largest advance of the clock between two timezone.now() readings of one step.
MaxSkew == 1
\* Cap on the number of remote tasks (the remote id counter).
MaxRemote == 3

\* ------------------------------------------------------- program constants

\* A nullable DateTimeField that holds no value.
NULL == -1

HoursPerDay == 24

Users == {"alice", "bob"}

FREQUENCY_CHOICES == {"daily", "weekly", "biweekly", "monthly", "yearly"}

\* The fixed day count the scan and the manual trigger add for a frequency;
\* every frequency other than the first four takes the else branch (yearly).
CadenceDays(frequency) ==
    IF frequency = "daily" THEN 1
    ELSE IF frequency = "weekly" THEN 7
    ELSE IF frequency = "biweekly" THEN 14
    ELSE IF frequency = "monthly" THEN 30
    ELSE 365

CadenceOffset(frequency) == CadenceDays(frequency) * HoursPerDay

\* --------------------------------------------------------------- variables

VARIABLES
    clock,            \* timezone.now(), in hours
    remote,           \* the Todoist side: remote[id] is the task with that id
    rules,            \* AutoCompleteRule rows, in insertion order
    templates,        \* TaskTemplate rows, in insertion order
    generated,        \* GeneratedTask rows, in insertion order
    watchers,         \* TaskWatcher rows
    notifications,    \* Notification rows, in insertion order
    pc,               \* position of the batch command: "idle", "ac", "gen"
    options,          \* the flags of the running batch command
    selected,         \* the rows the running scan's queryset returned, in order
    queue,            \* the part of selected the loop has not visited yet
    before,           \* the rows of the scanned table when the scan started
    scanlog,          \* what the running (or last) scan did, one entry per visit
    completed_count,  \* auto_complete_tasks' counter
    generated_count,  \* generate_recurring_tasks' counter
    last              \* the last handler step taken and its inputs

vars == <<clock, remote, rules, templates, generated, watchers, notifications,
          pc, options, selected, queue, before, scanlog, completed_count,
          generated_count, last>>

schedVars == <<remote, rules, templates, generated>>
scanVars == <<pc, options, selected, queue, before, scanlog, completed_count,
              generated_count>>
notifVars == <<watchers, notifications>>

\* ------------------------------------------------------------------ helpers

RECURSIVE SelectDesc(_, _)
\* The row indices k <= n among kept, newest (largest) first: the order of
\* Meta.ordering = ['-created_at'].
SelectDesc(kept, n) ==
    IF n = 0 THEN <<>>
    ELSE IF n \in kept THEN <<n>> \o SelectDesc(kept, n - 1)
    ELSE SelectDesc(kept, n - 1)

\* The index of the rule row with this task id, 0 when there is none
\* (todoist_task_id is unique).
RuleIndex(tid) ==
    IF \E i \in DOMAIN rules : rules[i].todoist_task_id = tid
    THEN CHOOSE i \in DOMAIN rules : rules[i].todoist_task_id = tid
    ELSE 0

Step(op, id, now, fail, outcome) ==
    [op |-> op, id |-> id, now |-> now, fail |-> fail, outcome |-> outcome]

NoStep == Step("init", 0, 0, "none", "none")

\* ----------------------------------------------------------------- calendar

\* The calendar year in which hour 0 falls (on January 1st, 00:00 UTC).
EpochYear == 2024

IsLeap(y) == (y % 4 = 0 /\ y % 100 # 0) \/ y % 400 = 0

DaysInYear(y) == IF IsLeap(y) THEN 366 ELSE 365

DaysInMonth(y, m) ==
    IF m = 2 THEN (IF IsLeap(y) THEN 29 ELSE 28)
    ELSE IF m \in {4, 6, 9, 11} THEN 30
    ELSE 31

MonthName(m) ==
    <<"January", "February", "March", "April", "May", "June", "July",
      "August", "September", "October", "November", "December">>[m]

RECURSIVE YearOf(_, _)
\* The year holding day d counted from January 1st of year y, and the day in it.
YearOf(d, y) ==
    IF d < DaysInYear(y) THEN [year |-> y, doy |-> d]
    ELSE YearOf(d - DaysInYear(y), y + 1)

RECURSIVE MonthOf(_, _, _)
MonthOf(doy, y, m) ==
    IF doy < DaysInMonth(y, m) THEN [month |-> m, day |-> doy + 1]
    ELSE MonthOf(doy - DaysInMonth(y, m), y, m + 1)

\* datetime.date() of an instant: the day number since the epoch.
DateOf(t) == t \div HoursPerDay

\* The calendar date of a day number.
Ymd(d) ==
    LET yd == YearOf(d, EpochYear)
        md == MonthOf(yd.doy, yd.year, 1)
    IN  [year |-> yd.year, month |-> md.month, day |-> md.day]

\* strftime('%Y-%m-%d') of an instant: the digits YYYYMMDD of the string.
StrfDate(t) ==
    LET c == Ymd(DateOf(t)) IN c.year * 10000 + c.month * 100 + c.day

\* strftime('%B'), strftime('%d'), strftime('%Y')
StrfMonth(t) == MonthName(Ymd(DateOf(t)).month)
StrfDay(t) == Ymd(DateOf(t)).day
StrfYear(t) == Ymd(DateOf(t)).year

RECURSIVE DaysBeforeYear(_)
DaysBeforeYear(y) ==
    IF y <= EpochYear THEN 0 ELSE DaysBeforeYear(y - 1) + DaysInYear(y - 1)

RECURSIVE DaysBeforeMonth(_, _)
DaysBeforeMonth(y, m) ==
    IF m <= 1 THEN 0 ELSE DaysBeforeMonth(y, m - 1) + DaysInMonth(y, m - 1)

\* datetime.strptime(s, '%Y-%m-%d') followed by make_aware: the instant (hours)
\* of that date's midnight, from the digits YYYYMMDD.
StrpDate(s) ==
    LET y == s \div 10000
        m == (s \div 100) % 100
        d == s % 100
    IN  (DaysBeforeYear(y) + DaysBeforeMonth(y, m) + d - 1) * HoursPerDay


\* -------------------------------------------------------------- remote dues

\* task['due'] of a remote task.  kind "none": the task has no due; "date":
\* due.date is 'YYYY-MM-DD' and t holds its digits YYYYMMDD; "datetime_z":
\* due.date holds a 'T' and a zone suffix, t is the instant in hours;
\* "datetime_naive": a 'T' and no zone suffix, t in hours; "malformed": a
\* string neither strptime nor fromisoformat accepts.
DueKinds == {"none", "date", "datetime_z", "datetime_naive", "malformed"}

NoDue == [kind |-> "none", t |-> 0]

\* task.get('due')
HasDue(due) == due.kind # "none"

\* 'T' in due_date_str
HasT(due) == due.kind \in {"datetime_z", "datetime_naive"}

\* Whether the parse returns (FALSE: strptime or fromisoformat raises ValueError).
DueParses(due) == due.kind \in {"date", "datetime_z", "datetime_naive"}

\* The parsed due date in hours: fromisoformat keeps the instant, strptime of a
\* date gives that day's midnight.
DueInstant(due) == IF HasT(due) THEN due.t ELSE StrpDate(due.t)

\* Whether the parsed datetime carries a zone: fromisoformat gives an aware
\* value only when the string has an offset, make_aware always does.
DueAware(due) == IF HasT(due) THEN due.kind = "datetime_z" ELSE TRUE

\* deadline = due_date + timedelta(hours=rule.complete_after_hours)
Deadline(due, hours) == DueInstant(due) + hours

\* A visit that closes whenever the due parses, whatever the deadline.
CloseWithoutDeadline(due, hours, now, fail) ==
    IF fail = "get_task" THEN "error"
    ELSE IF ~HasDue(due) THEN "skip"
    ELSE IF ~DueParses(due) THEN "error"
    ELSE IF ~DueAware(due) THEN "error"
    ELSE IF fail = "complete_task" THEN "error" ELSE "complete"

\* What one visit of the auto-complete loop does with a rule, given the remote
\* task's due, the rule's grace, the clock reading and the API call that fails:
\* "complete" (close and mark), "skip" (nothing to do) or "error" (the except
\* branch).  now >= deadline raises TypeError when the deadline is naive.
AutoCompleteOutcome(due, hours, now, fail) ==
    IF fail = "get_task" THEN "error"
    ELSE IF ~HasDue(due) THEN "skip"
    ELSE IF ~DueParses(due) THEN "error"
    ELSE IF ~DueAware(due) THEN "error"
    ELSE IF now >= Deadline(due, hours)
         THEN (IF fail = "complete_task" THEN "error" ELSE "complete")
    ELSE "skip"

\* ---------------------------------------------------------------- templates

KnownFields == {"{date}", "{month}", "{day}", "{year}"}

\* A placeholder str.format() has no keyword for.
UnknownFields == {"{week}"}

\* str.format(date=..., month=..., day=..., year=...) raises KeyError on a
\* placeholder that is none of the four.
FormatRaises(tpl) == \E k \in DOMAIN tpl : tpl[k] \in UnknownFields

\* One piece of a rendered string: literal text, or a substituted value.
Piece(text, num) == [text |-> text, num |-> num]

\* A rendering that puts the day of the month where the date belongs.
FormatDayForDate(tpl, due_date) ==
    [k \in DOMAIN tpl |->
        IF tpl[k] = "{date}" THEN Piece("%Y-%m-%d", StrfDay(due_date))
        ELSE IF tpl[k] = "{month}" THEN Piece(StrfMonth(due_date), 0)
        ELSE IF tpl[k] = "{day}" THEN Piece("%d", StrfDay(due_date))
        ELSE IF tpl[k] = "{year}" THEN Piece("%Y", StrfYear(due_date))
        ELSE Piece(tpl[k], 0)]

\* template.format(...) for a due date: every placeholder replaced by the
\* strftime value of due_date, literal text kept.
Format(tpl, due_date) ==
    [k \in DOMAIN tpl |->
        IF tpl[k] = "{date}" THEN Piece("%Y-%m-%d", StrfDate(due_date))
        ELSE IF tpl[k] = "{month}" THEN Piece(StrfMonth(due_date), 0)
        ELSE IF tpl[k] = "{day}" THEN Piece("%d", StrfDay(due_date))
        ELSE IF tpl[k] = "{year}" THEN Piece("%Y", StrfYear(due_date))
        ELSE Piece(tpl[k], 0)]

\* An eligibility test that leaves the boundary out.
ShouldGenerateAfter(template, now) ==
    IF template.last_generated = NULL THEN TRUE
    ELSE now - template.last_generated > CadenceOffset(template.frequency)

\* The eligibility test of the scan: never generated, or the elapsed time has
\* reached the frequency's threshold.  A frequency outside the five never does.
ShouldGenerate(template, now) ==
    IF template.last_generated = NULL THEN TRUE
    ELSE LET time_since_last == now - template.last_generated
         IN  \/ template.frequency = "daily" /\ time_since_last >= 1 * HoursPerDay
             \/ template.frequency = "weekly" /\ time_since_last >= 7 * HoursPerDay
             \/ template.frequency = "biweekly" /\ time_since_last >= 14 * HoursPerDay
             \/ template.frequency = "monthly" /\ time_since_last >= 30 * HoursPerDay
             \/ template.frequency = "yearly" /\ time_since_last >= 365 * HoursPerDay

\* A due date one day ahead whatever the frequency.
DueTomorrow(template, now) == now + HoursPerDay

\* due_date = now + timedelta(...) by frequency
NextDueDate(template, now) == now + CadenceOffset(template.frequency)


\* ------------------------------------------------------- rows and querysets

\* A rule created with the grace of one day.
NewRuleWithGrace(task_id, task_content, hours, user) ==
    [todoist_task_id |-> task_id, task_content |-> task_content,
     complete_after_hours |-> HoursPerDay, is_active |-> TRUE, created_by |-> user,
     completed_at |-> NULL]

\* AutoCompleteRule.objects.create(...): is_active defaults to True and
\* completed_at to null.
NewRule(task_id, task_content, hours, user) ==
    [todoist_task_id |-> task_id, task_content |-> task_content,
     complete_after_hours |-> hours, is_active |-> TRUE, created_by |-> user,
     completed_at |-> NULL]

\* GeneratedTask.objects.create(...): is_completed defaults to False.
NewGeneratedTask(template_id, task_id, task_content, due_date) ==
    [template |-> template_id, todoist_task_id |-> task_id,
     task_content |-> task_content, due_date |-> DateOf(due_date),
     is_completed |-> FALSE]

\* The task POST /tasks creates from the payload the two generation paths send.
NewRemoteTask(content, description, due_date) ==
    [content |-> content, description |-> description,
     due |-> [kind |-> "date", t |-> StrfDate(due_date)],
     is_completed |-> FALSE, scan_closes |-> 0]

\* A queryset with the one condition filter(is_active=True).
ActiveRule(rule) == rule.is_active

\* filter(is_active=True, completed_at__isnull=True)
RuleSelected(rule) == rule.is_active /\ rule.completed_at = NULL

\* filter(is_active=True)
TemplateSelected(template) == template.is_active

\* rule.completed_at = timezone.now(); rule.is_active = False; rule.save()
CompleteRule(rule, now) == [rule EXCEPT !.completed_at = now, !.is_active = FALSE]

\* An update with no filter on the task id.
MarkEveryGeneratedCompleted(rows, task_id) ==
    [k \in DOMAIN rows |-> [rows[k] EXCEPT !.is_completed = TRUE]]

\* GeneratedTask.objects.filter(todoist_task_id=...).update(is_completed=True)
MarkGeneratedCompleted(rows, task_id) ==
    [k \in DOMAIN rows |->
        IF rows[k].todoist_task_id = task_id
        THEN [rows[k] EXCEPT !.is_completed = TRUE]
        ELSE rows[k]]

\* POST /tasks/{id}/close as the remote side sees it: the task is completed;
\* scan_closes counts the close calls the auto-complete scan has made for it.
CloseRemote(task, by_scan) ==
    [task EXCEPT !.is_completed = TRUE, !.scan_closes = @ + by_scan]

\* rule.is_active = True; rule.save() on the row get_or_create found
Reactivate(rule) == [rule EXCEPT !.is_active = TRUE]

\* A loop that comes back to the row whose visit raised.
StayOnError(rows, outcome) == IF outcome = "error" THEN rows ELSE Tail(rows)

\* A loop that leaves at the first visit that raises: the try around the for.
LeaveOnError(rows, outcome) == IF outcome = "error" THEN <<>> ELSE Tail(rows)

\* for rule in rules, with the try inside the loop body: whatever the visit's
\* outcome, the loop goes on with the next rule.
NextRules(rows, outcome) == Tail(rows)

\* for template in templates, with the try inside the loop body.
NextTemplates(rows, outcome) == Tail(rows)

\* ------------------------------------------------------------- environment

\* The clock advance between handler steps where generation is explored: the
\* rest of a day (the clock readings inside a step add the single hours).
DayJumps == {HoursPerDay - 1}

\* The API call of an auto-complete visit that raises, if any.
AutoCompleteFailures == {"none", "get_task", "complete_task"}

\* The call of a generation that raises, if any: the remote create, the
\* GeneratedTask insert, the AutoCompleteRule insert, or template.save().
GenerationFailures == {"none", "create_task", "gt_insert", "rule_insert", "save"}

\* What a user posts as task_content, and as hours.
PostedContents == {<<Piece("Pay rent", 0)>>}
PostedHours == {0, 1}

\* ------------------------------------------------------------- generation

\* A stamp that reuses the reading taken before the remote call.
StampOfNow(now, saved_at) == now

\* template.last_generated = timezone.now(): a second reading of the clock,
\* taken after the remote call and the inserts, not the now of the test.
LastGeneratedStamp(now, saved_at) == saved_at

\* A body that stamps the template before it inserts any row.
StampBeforeInserts(auto_complete, fail) == fail # "save"

\* template.save() is the last statement of the try: it is reached when the
\* GeneratedTask insert and, if the template asks for a rule, the rule insert
\* have returned, and the stamp is stored when save itself returns.
SaveReturns(auto_complete, fail) ==
    /\ fail # "gt_insert"
    /\ auto_complete => fail # "rule_insert"
    /\ fail # "save"

\* The body both generation paths run once they generate: render, create the
\* remote task, insert the GeneratedTask row, insert the rule when the template
\* asks for it, stamp last_generated.  template is the in-memory object, owner
\* the rule's created_by, saved_at the clock reading of the final save, fail
\* the call that raises.  Each step runs only if every earlier one returned.
Generation(id, template, now, owner, fail, saved_at) ==
    LET due_date == NextDueDate(template, now)
        rendered ==
            /\ ~FormatRaises(template.content_template)
            /\ ~FormatRaises(template.description_template)
        task_content == Format(template.content_template, due_date)
        task_description == Format(template.description_template, due_date)
        task_id == Len(remote) + 1
        created == rendered /\ fail # "create_task"
        tracked == created /\ fail # "gt_insert"
        ruled == tracked /\ template.auto_complete /\ fail # "rule_insert"
        saved == created /\ SaveReturns(template.auto_complete, fail)
    IN  [remote |->
            IF created
            THEN Append(remote, NewRemoteTask(task_content, task_description, due_date))
            ELSE remote,
         generated |->
            IF tracked
            THEN Append(generated, NewGeneratedTask(id, task_id, task_content, due_date))
            ELSE generated,
         rules |->
            IF ruled
            THEN Append(rules, NewRule(task_id, task_content, 0, owner))
            ELSE rules,
         templates |->
            IF saved
            THEN [templates EXCEPT ![id] =
                     [template EXCEPT !.last_generated = LastGeneratedStamp(now, saved_at)]]
            ELSE templates,
         outcome |-> IF saved THEN "generated" ELSE "error"]

\* Whether the chosen failure names a call this generation reaches.
FailureReached(template, fail) ==
    LET rendered ==
            /\ ~FormatRaises(template.content_template)
            /\ ~FormatRaises(template.description_template)
    IN  \/ fail = "none"
        \/ rendered /\ fail \in {"create_task", "gt_insert", "save"}
        \/ rendered /\ fail = "rule_insert" /\ template.auto_complete


\* ------------------------------------------------------------------ clock

\* Time passes between handler steps.
Tick(jumps, limit) ==
    /\ \E j \in jumps : clock + j <= limit /\ clock' = clock + j
    /\ UNCHANGED <<schedVars, scanVars, notifVars, last>>

\* ------------------------------------------------- the scheduled command

\* The templates a generation phase starting now can still generate from
\* before the clock bound: the cap on remote ids leaves room for each.
MayGenerate(limit) ==
    {i \in DOMAIN templates :
        TemplateSelected(templates[i]) /\ ShouldGenerate(templates[i], limit)}

\* handle(): the command starts.  Without --generate-only the auto-complete
\* phase runs first; its queryset is evaluated when the loop starts.
handle(generate_only, auto_complete_only, limit) ==
    /\ pc = "idle"
    /\ auto_complete_only \/ Len(remote) + Cardinality(MayGenerate(limit)) <= MaxRemote
    /\ options' = [generate_only |-> generate_only,
                   auto_complete_only |-> auto_complete_only]
    /\ completed_count' = 0
    /\ generated_count' = 0
    /\ scanlog' = <<>>
    /\ IF ~generate_only
       THEN /\ pc' = "ac"
            /\ selected' = SelectDesc({i \in DOMAIN rules : RuleSelected(rules[i])}, Len(rules))
            /\ before' = rules
       ELSE IF ~auto_complete_only
       THEN /\ pc' = "gen"
            /\ selected' = SelectDesc({i \in DOMAIN templates : TemplateSelected(templates[i])},
                                    Len(templates))
            /\ before' = templates
       ELSE /\ pc' = "idle"
            /\ selected' = <<>>
            /\ before' = <<>>
    /\ queue' = selected'
    /\ last' = Step("handle", 0, clock, "none",
                    IF generate_only /\ auto_complete_only THEN "done" ELSE "started")
    /\ UNCHANGED <<clock, schedVars, notifVars>>

\* One visit of the loop of auto_complete_tasks.
auto_complete_step(failures, limit) ==
    /\ pc = "ac"
    /\ queue # <<>>
    /\ \E fail \in failures, d \in 0 .. MaxSkew :
        LET id == Head(queue)
            rule == before[id]
            task_id == rule.todoist_task_id
            due == remote[task_id].due
            now == clock
            outcome == AutoCompleteOutcome(due, rule.complete_after_hours, now, fail)
        IN  /\ fail = "complete_task" =>
                  AutoCompleteOutcome(due, rule.complete_after_hours, now, "none") = "complete"
            /\ outcome # "complete" => d = 0
            /\ clock + d <= limit
            /\ clock' = clock + d
            /\ IF outcome = "complete"
               THEN /\ remote' = [remote EXCEPT ![task_id] = CloseRemote(remote[task_id], 1)]
                    /\ rules' = [rules EXCEPT ![id] = CompleteRule(rule, clock + d)]
                    /\ generated' = MarkGeneratedCompleted(generated, task_id)
                    /\ completed_count' = completed_count + 1
               ELSE UNCHANGED <<remote, rules, generated, completed_count>>
            /\ queue' = NextRules(queue, outcome)
            /\ scanlog' = Append(scanlog, Step("auto_complete", id, now, fail, outcome))
            /\ last' = Step("auto_complete", id, now, fail, outcome)
    /\ UNCHANGED <<templates, notifVars, pc, options, selected, before, generated_count>>

\* auto_complete_tasks returns; handle goes on with the generation phase unless
\* --auto-complete-only was given.
auto_complete_done ==
    /\ pc = "ac"
    /\ queue = <<>>
    /\ IF ~options.auto_complete_only
       THEN /\ pc' = "gen"
            /\ selected' = SelectDesc({i \in DOMAIN templates : TemplateSelected(templates[i])},
                                    Len(templates))
            /\ before' = templates
            /\ queue' = selected'
            /\ scanlog' = <<>>
            /\ last' = Step("auto_complete_tasks", 0, clock, "none", "returned")
       ELSE /\ pc' = "idle"
            /\ selected' = <<>>
            /\ before' = <<>>
            /\ queue' = <<>>
            /\ scanlog' = <<>>
            /\ last' = Step("handle", 0, clock, "none", "done")
    /\ UNCHANGED <<clock, schedVars, notifVars, options, completed_count, generated_count>>

\* One visit of the loop of generate_recurring_tasks.
generate_step(failures, limit) ==
    /\ pc = "gen"
    /\ queue # <<>>
    /\ \E fail \in failures, d \in 0 .. MaxSkew :
        LET id == Head(queue)
            template == before[id]
            now == clock
            should_generate == ShouldGenerate(template, now)
            g == Generation(id, template, now, template.created_by, fail, clock + d)
            outcome == IF should_generate THEN g.outcome ELSE "skip"
        IN  /\ IF should_generate THEN FailureReached(template, fail) ELSE fail = "none"
            /\ outcome # "generated" => d = 0
            /\ clock + d <= limit
            /\ clock' = clock + d
            /\ IF should_generate
               THEN /\ remote' = g.remote
                    /\ generated' = g.generated
                    /\ rules' = g.rules
                    /\ templates' = g.templates
               ELSE UNCHANGED <<remote, generated, rules, templates>>
            /\ generated_count' = IF outcome = "generated" THEN generated_count + 1
                                  ELSE generated_count
            /\ queue' = NextTemplates(queue, outcome)
            /\ scanlog' = Append(scanlog, Step("generate", id, now, fail, outcome))
            /\ last' = Step("generate", id, now, fail, outcome)
    /\ UNCHANGED <<notifVars, pc, options, selected, before, completed_count>>

\* generate_recurring_tasks returns and handle writes its last line.
generate_done ==
    /\ pc = "gen"
    /\ queue = <<>>
    /\ pc' = "idle"
    /\ selected' = <<>>
    /\ before' = <<>>
    /\ queue' = <<>>
    /\ scanlog' = <<>>
    /\ last' = Step("handle", 0, clock, "none", "done")
    /\ UNCHANGED <<clock, schedVars, notifVars, options, completed_count, generated_count>>

\* ---------------------------------------------------------------- web views

\* template_generate: the manual trigger, for any template id that exists.
template_generate(user, id, failures, limit) ==
    /\ pc = "idle"
    /\ id \in DOMAIN templates
    /\ Len(remote) < MaxRemote
    /\ \E fail \in failures, d \in 0 .. MaxSkew :
        LET template == templates[id]
            now == clock
            g == Generation(id, template, now, user, fail, clock + d)
        IN  /\ FailureReached(template, fail)
            /\ g.outcome # "generated" => d = 0
            /\ clock + d <= limit
            /\ clock' = clock + d
            /\ remote' = g.remote
            /\ generated' = g.generated
            /\ rules' = g.rules
            /\ templates' = g.templates
            /\ last' = Step("template_generate", id, now, fail, g.outcome)
    /\ UNCHANGED <<scanVars, notifVars>>

\* autocomplete_create: get_or_create on the task id; an existing row is set
\* active again and saved, its other fields left as they are.
autocomplete_create(user, task_id, task_content, hours) ==
    /\ pc = "idle"
    /\ LET id == RuleIndex(task_id)
       IN  IF id = 0
           THEN /\ rules' = Append(rules, NewRule(task_id, task_content, hours, user))
                /\ last' = Step("autocomplete_create", task_id, clock, "none", "created")
           ELSE /\ rules' = [rules EXCEPT ![id] = Reactivate(rules[id])]
                /\ last' = Step("autocomplete_create", task_id, clock, "none", "reactivated")
    /\ UNCHANGED <<clock, remote, templates, generated, scanVars, notifVars>>



\* ------------------------------------------------- watchers, notifications

\* Cap on the TaskWatcher rows ever inserted, and on the Notification rows.
MaxWatchers == 2
MaxNotifications == 2
\* Largest clock value the notification specification explores.
MaxReadClock == 1

\* A username no User row has.
UnknownUsers == {"mallory"}

\* TaskWatcher.objects.get_or_create(... defaults ...): the notify flags
\* default to True.  A deleted row keeps its place (ids are never reused).
NewWatcher(task_id, watcher, task_content, added_by) ==
    [todoist_task_id |-> task_id, watcher |-> watcher,
     task_content |-> task_content, added_by |-> added_by,
     notify_on_update |-> TRUE, notify_on_complete |-> TRUE,
     notify_on_overdue |-> TRUE, deleted |-> FALSE]

\* Notification.objects.create(...): is_read defaults to False, read_at to null.
NewNotification(user, notification_type, about, task_id) ==
    [user |-> user, notification_type |-> notification_type, message |-> about,
     todoist_task_id |-> task_id, is_read |-> FALSE, read_at |-> NULL]

\* A lookup that sees only the rows already deleted.
DeletedWatcherIndex(task_id, watcher) ==
    LET found == {i \in DOMAIN watchers :
                    /\ watchers[i].deleted
                    /\ watchers[i].todoist_task_id = task_id
                    /\ watchers[i].watcher = watcher}
    IN  IF found = {} THEN 0 ELSE CHOOSE i \in found : TRUE

\* The index of the live watcher row of the pair, 0 when there is none
\* (unique_together = ['todoist_task_id', 'watcher']).
WatcherIndex(task_id, watcher) ==
    LET found == {i \in DOMAIN watchers :
                    /\ ~watchers[i].deleted
                    /\ watchers[i].todoist_task_id = task_id
                    /\ watchers[i].watcher = watcher}
    IN  IF found = {} THEN 0 ELSE CHOOSE i \in found : TRUE

\* A mark_as_read that stamps whatever the row's is_read.
MarkAsReadAgain(notification, now) ==
    [notification EXCEPT !.is_read = TRUE, !.read_at = now]

\* Notification.mark_as_read()
mark_as_read(notification, now) ==
    IF ~notification.is_read
    THEN [notification EXCEPT !.is_read = TRUE, !.read_at = now]
    ELSE notification

\* A filter on the user alone.
AllOf(notification, user) == notification.user = user

\* A filter on is_read alone.
UnreadOfAnyone(notification, user) == ~notification.is_read

\* filter(user=request.user, is_read=False)
UnreadOf(notification, user) == notification.user = user /\ ~notification.is_read

\* watcher_add: an unknown username is reported and nothing is written; a new
\* pair gets a row and the watcher a 'watcher_added' notification; an existing
\* pair gets neither.
watcher_add(user, task_id, task_content, watcher_username, limit) ==
    /\ pc = "idle"
    /\ IF watcher_username \notin Users
       THEN /\ last' = Step("watcher_add", task_id, clock, "DoesNotExist", "error")
            /\ UNCHANGED <<watchers, notifications>>
       ELSE IF WatcherIndex(task_id, watcher_username) = 0
       THEN /\ Len(watchers) < MaxWatchers
            /\ Len(notifications) < limit
            /\ watchers' = Append(watchers,
                   NewWatcher(task_id, watcher_username, task_content, user))
            /\ notifications' = Append(notifications,
                   NewNotification(watcher_username, "watcher_added",
                       [by |-> user, task_content |-> task_content], task_id))
            /\ last' = Step("watcher_add", task_id, clock, "none", "created")
       ELSE /\ last' = Step("watcher_add", task_id, clock, "none", "exists")
            /\ UNCHANGED <<watchers, notifications>>
    /\ UNCHANGED <<clock, schedVars, scanVars>>

\* A view without the permission test.
AnyoneMayRemove(user, watcher) == TRUE

\* request.user == watcher.added_by or request.user == watcher.watcher
MayRemove(user, watcher) == user = watcher.added_by \/ user = watcher.watcher

\* watcher_remove: only the adder or the watcher may delete the row.
watcher_remove(user, watcher_id) ==
    /\ pc = "idle"
    /\ watcher_id \in DOMAIN watchers
    /\ ~watchers[watcher_id].deleted
    /\ IF MayRemove(user, watchers[watcher_id])
       THEN /\ watchers' = [watchers EXCEPT ![watcher_id].deleted = TRUE]
            /\ last' = Step("watcher_remove", watcher_id, clock, "none", "removed")
       ELSE /\ UNCHANGED watchers
            /\ last' = Step("watcher_remove", watcher_id, clock, "none", "forbidden")
    /\ UNCHANGED <<clock, schedVars, scanVars, notifications>>

\* notification_mark_read: the row must be the requesting user's (else 404).
notification_mark_read(user, notification_id) ==
    /\ pc = "idle"
    /\ notification_id \in DOMAIN notifications
    /\ notifications[notification_id].user = user
    /\ notifications' = [notifications EXCEPT
           ![notification_id] = mark_as_read(notifications[notification_id], clock)]
    /\ last' = Step("notification_mark_read", notification_id, clock, "none", "success")
    /\ UNCHANGED <<clock, schedVars, scanVars, watchers>>

\* notification_mark_all_read: one UPDATE over the user's unread rows.
notification_mark_all_read(user) ==
    /\ pc = "idle"
    /\ notifications' =
          [k \in DOMAIN notifications |->
              IF UnreadOf(notifications[k], user)
              THEN [notifications[k] EXCEPT !.is_read = TRUE, !.read_at = clock]
              ELSE notifications[k]]
    /\ last' = Step("notification_mark_all_read", 0, clock, "none", "success")
    /\ UNCHANGED <<clock, schedVars, scanVars, watchers>>

\* NotificationAdmin.mark_as_read over the selected rows.
admin_mark_as_read(queryset) ==
    /\ pc = "idle"
    /\ notifications' =
          [k \in DOMAIN notifications |->
              IF k \in queryset THEN mark_as_read(notifications[k], clock)
              ELSE notifications[k]]
    /\ last' = Step("admin_mark_as_read", 0, clock, "none", "success")
    /\ UNCHANGED <<clock, schedVars, scanVars, watchers>>

\* NotificationAdmin.mark_as_unread: update(is_read=False, read_at=None).
admin_mark_as_unread(queryset) ==
    /\ pc = "idle"
    /\ notifications' =
          [k \in DOMAIN notifications |->
              IF k \in queryset
              THEN [notifications[k] EXCEPT !.is_read = FALSE, !.read_at = NULL]
              ELSE notifications[k]]
    /\ last' = Step("admin_mark_as_unread", 0, clock, "none", "success")
    /\ UNCHANGED <<clock, schedVars, scanVars, watchers>>

\* TaskWatcherAdmin change form: the notification settings of a row are
\* editable fields.
admin_watcher_change(watcher_id, notify_on_complete) ==
    /\ pc = "idle"
    /\ watcher_id \in DOMAIN watchers
    /\ ~watchers[watcher_id].deleted
    /\ watchers' = [watchers EXCEPT ![watcher_id].notify_on_complete = notify_on_complete]
    /\ last' = Step("admin_watcher_change", watcher_id, clock, "none", "saved")
    /\ UNCHANGED <<clock, schedVars, scanVars, notifications>>

\* A filter on the task id alone.
WatchersOf(task_id) ==
    LET keep(w) == ~w.deleted /\ w.todoist_task_id = task_id
    IN  SelectDesc({i \in DOMAIN watchers : keep(watchers[i])}, Len(watchers))

\* The watcher rows task_complete notifies, newest first:
\* filter(todoist_task_id=task_id, notify_on_complete=True).
Notified(task_id) ==
    LET keep(w) == ~w.deleted /\ w.todoist_task_id = task_id /\ w.notify_on_complete
    IN  SelectDesc({i \in DOMAIN watchers : keep(watchers[i])}, Len(watchers))

\* A completion view that also retires the rules of the task it closes.
RetireRulesOf(rows, task_id) ==
    [k \in DOMAIN rows |->
        IF rows[k].todoist_task_id = task_id
        THEN [rows[k] EXCEPT !.is_active = FALSE]
        ELSE rows[k]]

\* What task_complete does to the AutoCompleteRule table: the view calls the
\* remote close and writes Notification rows, and no statement of it reads or
\* writes a rule.
RulesAfterUserClose(rows, task_id) == rows

\* task_complete: close the remote task, then one 'task_completed'
\* notification per notified watcher; a failing close writes nothing.
task_complete(user, task_id, fail, limit) ==
    /\ pc = "idle"
    /\ task_id \in DOMAIN remote
    /\ IF fail = "complete_task"
       THEN /\ last' = Step("task_complete", task_id, clock, fail, "error")
            /\ UNCHANGED <<remote, notifications>>
       ELSE LET rows == Notified(task_id)
            IN  /\ Len(notifications) + Len(rows) <= limit
                /\ remote' = [remote EXCEPT ![task_id] = CloseRemote(remote[task_id], 0)]
                /\ notifications' = notifications \o
                      [k \in DOMAIN rows |->
                          NewNotification(watchers[rows[k]].watcher, "task_completed",
                              [by |-> "", task_content |-> watchers[rows[k]].task_content],
                              task_id)]
                /\ last' = Step("task_complete", task_id, clock, fail, "completed")
    /\ rules' = IF fail = "complete_task" THEN rules ELSE RulesAfterUserClose(rules, task_id)
    /\ UNCHANGED <<clock, templates, generated, scanVars, watchers>>

\* ------------------------------------------------------- the remote client

\* An optional argument: None, or a value (which may be empty).
None == [given |-> FALSE]
Some(value) == [given |-> TRUE, value |-> value]

\* Python truth of an optional string and of an optional list.
TruthyStr(x) == x.given /\ x.value # ""
TruthyList(x) == x.given /\ x.value # <<>>

\* A payload that takes due_date whether or not due_string was taken.
BothDueKeys(due_string, due_date) ==
    (IF TruthyStr(due_string) THEN {"due_string"} ELSE {}) \cup
    (IF TruthyStr(due_date) THEN {"due_date"} ELSE {})

\* if due_string: ... elif due_date: ...
DueKeys(due_string, due_date) ==
    IF TruthyStr(due_string) THEN {"due_string"}
    ELSE IF TruthyStr(due_date) THEN {"due_date"}
    ELSE {}

\* The data create_task posts: content and the extra keyword arguments, then
\* each optional key under its own test.
create_task_data(content, description, project_id, due_string, due_date, priority, labels, kwargs) ==
    LET keys == {"content"} \cup DOMAIN kwargs
                \cup (IF TruthyStr(description) THEN {"description"} ELSE {})
                \cup (IF TruthyStr(project_id) THEN {"project_id"} ELSE {})
                \cup DueKeys(due_string, due_date)
                \cup (IF priority > 1 THEN {"priority"} ELSE {})
                \cup (IF TruthyList(labels) THEN {"labels"} ELSE {})
    IN  [k \in keys |->
            CASE k = "content" -> content
              [] k = "description" -> description.value
              [] k = "project_id" -> project_id.value
              [] k = "due_string" -> due_string.value
              [] k = "due_date" -> due_date.value
              [] k = "priority" -> priority
              [] k = "labels" -> labels.value
              [] OTHER -> kwargs[k]]

\* The arguments a caller may pass.
OptionalStrings(values) == {None, Some("")} \cup {Some(v) : v \in values}
Priorities == 0 .. 4
LabelLists == {None, Some(<<>>), Some(<<"work", "home">>)}
ExtraArguments == {[k \in {} |-> ""], [due_lang |-> "en"]}

CreateTaskArguments ==
    [content : {"Pay rent"},
     description : OptionalStrings({"by transfer"}),
     project_id : OptionalStrings({"2203306141"}),
     due_string : OptionalStrings({"tomorrow"}),
     due_date : OptionalStrings({"2024-01-02"}),
     priority : Priorities,
     labels : LabelLists,
     kwargs : ExtraArguments]

\* create_task builds the data of its arguments, which the step holds as its
\* subject, and records it as the step's outcome.
create_task ==
    /\ last.op = "call create_task"
    /\ LET a == last.id
       IN  last' = Step("create_task", a, clock, "none",
                        create_task_data(a.content, a.description, a.project_id,
                                         a.due_string, a.due_date, a.priority,
                                         a.labels, a.kwargs))
    /\ UNCHANGED <<clock, schedVars, scanVars, notifVars>>

\* ----------------------------------------------------------- specifications

\* The templates the specifications start from: rows template_create writes
\* (last_generated null), one per kind of behaviour.
DailyReport ==
    [frequency |-> "daily", auto_complete |-> TRUE, is_active |-> TRUE,
     content_template |-> <<"Report - ", "{date}">>, description_template |-> <<>>,
     created_by |-> "alice", last_generated |-> NULL]

WeeklyReview ==
    [frequency |-> "weekly", auto_complete |-> FALSE, is_active |-> TRUE,
     content_template |-> <<"Review ", "{month}", "{day}", "{year}">>,
     description_template |-> <<"Due ", "{date}">>,
     created_by |-> "bob", last_generated |-> NULL]

BadPlaceholder ==
    [frequency |-> "daily", auto_complete |-> TRUE, is_active |-> TRUE,
     content_template |-> <<"Sprint ", "{week}">>, description_template |-> <<>>,
     created_by |-> "alice", last_generated |-> NULL]

Paused ==
    [frequency |-> "daily", auto_complete |-> TRUE, is_active |-> FALSE,
     content_template |-> <<"Report - ", "{date}">>, description_template |-> <<>>,
     created_by |-> "alice", last_generated |-> NULL]

TemplateTables ==
    {<<DailyReport, WeeklyReview>>, <<DailyReport, BadPlaceholder>>,
     <<DailyReport, Paused>>}

\* The instant the remote tasks users made by hand are due: the first midnight.
UserDueAt == HoursPerDay

UserDues ==
    {NoDue,
     [kind |-> "date", t |-> StrfDate(UserDueAt)],
     [kind |-> "datetime_z", t |-> UserDueAt],
     [kind |-> "datetime_naive", t |-> UserDueAt],
     [kind |-> "malformed", t |-> 0]}

UserTask(due) ==
    [content |-> <<Piece("Pay rent", 0)>>, description |-> <<>>, due |-> due,
     is_completed |-> FALSE, scan_closes |-> 0]

\* Two remote tasks made by hand: one with any kind of due, one due on a date.
UserTaskTables ==
    {<<UserTask(d), UserTask([kind |-> "date", t |-> StrfDate(UserDueAt)])>> :
        d \in UserDues}

\* The users who send requests in the scheduler specifications.
Requesters == {"bob"}

NoOptions == [generate_only |-> FALSE, auto_complete_only |-> FALSE]

InitIdle ==
    /\ rules = <<>>
    /\ generated = <<>>
    /\ watchers = <<>>
    /\ notifications = <<>>
    /\ pc = "idle"
    /\ options = NoOptions
    /\ selected = <<>>
    /\ queue = <<>>
    /\ before = <<>>
    /\ scanlog = <<>>
    /\ completed_count = 0
    /\ generated_count = 0
    /\ last = NoStep

\* The auto-complete scan over rules users made for tasks made by hand.
InitAC ==
    /\ clock = UserDueAt - 2
    /\ remote \in UserTaskTables
    /\ templates = <<>>
    /\ InitIdle

NextAC ==
    \/ Tick({1}, MaxClock)
    \/ \E g \in BOOLEAN, a \in BOOLEAN : handle(g, a, MaxClock)
    \/ auto_complete_step(AutoCompleteFailures, MaxClock)
    \/ auto_complete_done
    \/ generate_done
    \/ \E u \in Requesters, t \in DOMAIN remote, c \in PostedContents, h \in PostedHours :
          autocomplete_create(u, t, c, h)

SpecAC == InitAC /\ [][NextAC]_vars

\* Generation from templates, scheduled and manual, with every failure.
InitGen ==
    /\ clock = 0
    /\ remote = <<>>
    /\ templates \in TemplateTables
    /\ InitIdle

NextGen ==
    \/ Tick(DayJumps, MaxClock)
    \/ \E a \in BOOLEAN : handle(TRUE, a, MaxClock)
    \/ generate_step(GenerationFailures, MaxClock)
    \/ generate_done
    \/ \E u \in Requesters, id \in DOMAIN templates :
          template_generate(u, id, GenerationFailures, MaxClock)

SpecGen == InitGen /\ [][NextGen]_vars

\* The scheduled command and the views together: generation, the rules it
\* spawns and the rules users add, auto-completion.
SchedulerFailures == {"none", "create_task"}
SchedulerCloseFailures == {"none", "complete_task"}
SchedulerHours == {0}

Init ==
    /\ clock = 0
    /\ remote = <<>>
    /\ templates = <<DailyReport, WeeklyReview>>
    /\ InitIdle

Next ==
    \/ Tick(DayJumps, MaxClock)
    \/ \E g \in BOOLEAN, a \in BOOLEAN : handle(g, a, MaxClock)
    \/ auto_complete_step(SchedulerCloseFailures, MaxClock)
    \/ auto_complete_done
    \/ generate_step(SchedulerFailures, MaxClock)
    \/ generate_done
    \/ \E u \in Requesters, id \in DOMAIN templates :
          template_generate(u, id, SchedulerFailures, MaxClock)
    \/ \E u \in Requesters, t \in DOMAIN remote, c \in PostedContents, h \in SchedulerHours :
          autocomplete_create(u, t, c, h)

Spec == Init /\ [][Next]_vars

\* One template of each frequency, active or paused, and the clock brought to
\* the hour before, the hour of and the hour after the moment its cadence
\* offset has elapsed since last_generated.
CadenceTemplate(frequency, is_active) ==
    [frequency |-> frequency, auto_complete |-> FALSE, is_active |-> is_active,
     content_template |-> <<"Report - ", "{date}">>, description_template |-> <<>>,
     created_by |-> "alice", last_generated |-> NULL]

CadenceFailures == {"none", "create_task"}

\* Far enough for MaxRemote generations of a yearly template.
CadenceLimit == MaxRemote * (CadenceOffset("yearly") + MaxSkew + 1)

\* The jumps that bring the clock around the moment each template is due again.
CadenceJumps ==
    {t - clock : t \in
        {templates[i].last_generated + CadenceOffset(templates[i].frequency) + e :
            i \in {j \in DOMAIN templates : templates[j].last_generated # NULL},
            e \in {-1, 0, 1}} \cap (clock + 1 .. CadenceLimit)}

InitCadence ==
    /\ clock = 0
    /\ remote = <<>>
    /\ templates \in {<<CadenceTemplate(f, a)>> : f \in FREQUENCY_CHOICES, a \in BOOLEAN}
    /\ InitIdle

NextCadence ==
    \/ Tick(CadenceJumps, CadenceLimit)
    \/ handle(TRUE, FALSE, CadenceLimit)
    \/ generate_step(CadenceFailures, CadenceLimit)
    \/ generate_done
    \/ \E u \in Requesters, id \in DOMAIN templates :
          template_generate(u, id, {"none"}, CadenceLimit)

SpecCadence == InitCadence /\ [][NextCadence]_vars

\* Watchers and notifications: the views, the admin actions, the completion.
InitNotif ==
    /\ clock = 0
    /\ remote = <<UserTask(NoDue), UserTask(NoDue)>>
    /\ templates = <<>>
    /\ InitIdle

NextNotif ==
    \/ Tick({1}, MaxReadClock)
    \/ \E u \in Users, t \in DOMAIN remote, c \in PostedContents,
          w \in Users \cup UnknownUsers : watcher_add(u, t, c, w, MaxNotifications)
    \/ \E u \in Users, id \in DOMAIN watchers : watcher_remove(u, id)
    \/ \E u \in Users, id \in DOMAIN notifications : notification_mark_read(u, id)
    \/ \E u \in Users : notification_mark_all_read(u)
    \/ \E q \in SUBSET DOMAIN notifications : q # {} /\ admin_mark_as_read(q)
    \/ \E q \in SUBSET DOMAIN notifications : q # {} /\ admin_mark_as_unread(q)
    \/ \E u \in Users, t \in DOMAIN remote, f \in {"none", "complete_task"} :
          task_complete(u, t, f, MaxNotifications)

SpecNotif == InitNotif /\ [][NextNotif]_vars

\* Watching and completing: two hand-made tasks, watchers added and removed,
\* their notify_on_complete switched in the admin, tasks completed from the
\* dashboard with the remote close succeeding or failing.
WatchLimit == MaxWatchers + MaxNotifications

InitWatch ==
    /\ clock = 0
    /\ remote = <<UserTask(NoDue), UserTask(NoDue)>>
    /\ templates = <<>>
    /\ InitIdle

NextWatch ==
    \/ \E u \in Requesters, t \in DOMAIN remote, c \in PostedContents,
          w \in Users \cup UnknownUsers : watcher_add(u, t, c, w, WatchLimit)
    \/ \E u \in Users, id \in DOMAIN watchers : watcher_remove(u, id)
    \/ \E id \in DOMAIN watchers, b \in BOOLEAN : admin_watcher_change(id, b)
    \/ \E u \in Requesters, t \in DOMAIN remote, f \in {"none", "complete_task"} :
          task_complete(u, t, f, WatchLimit)

SpecWatch == InitWatch /\ [][NextWatch]_vars

\* The scheduled command next to the web completion view: a template whose
\* tasks get a rule, generated by the scan, closed by a user, by the scan, or
\* by both.
CloseRequestFailures == {"none", "complete_task"}

InitClose ==
    /\ clock = 0
    /\ remote = <<>>
    /\ templates = <<DailyReport>>
    /\ InitIdle

NextClose ==
    \/ Tick(DayJumps, MaxClock)
    \/ \E g \in BOOLEAN, a \in BOOLEAN : handle(g, a, MaxClock)
    \/ auto_complete_step(SchedulerCloseFailures, MaxClock)
    \/ auto_complete_done
    \/ generate_step({"none"}, MaxClock)
    \/ generate_done
    \/ \E u \in Requesters, t \in DOMAIN remote, f \in CloseRequestFailures :
          task_complete(u, t, f, MaxNotifications)

SpecClose == InitClose /\ [][NextClose]_vars

\* One call of create_task with each combination of arguments.
InitPayload ==
    /\ clock = 0
    /\ remote = <<>>
    /\ templates = <<>>
    /\ rules = <<>>
    /\ generated = <<>>
    /\ watchers = <<>>
    /\ notifications = <<>>
    /\ pc = "idle"
    /\ options = NoOptions
    /\ selected = <<>>
    /\ queue = <<>>
    /\ before = <<>>
    /\ scanlog = <<>>
    /\ completed_count = 0
    /\ generated_count = 0
    /\ \E a \in CreateTaskArguments : last = Step("call create_task", a, 0, "none", "")

NextPayload == create_task

SpecPayload == InitPayload /\ [][NextPayload]_vars

\* One batch command after another over a hand-made task with any kind of
\* due, a template that generates and one that cannot render, with remote
\* calls failing.  The command is one sequential process: once invoked it
\* keeps taking its next step, which the fairness conditions state.
BatchFailures == {"none", "create_task"}

InitBatch ==
    /\ clock = UserDueAt - 1
    /\ remote \in {<<UserTask(d)>> : d \in UserDues}
    /\ templates = <<DailyReport, BadPlaceholder>>
    /\ InitIdle

NextBatch ==
    \/ Tick({1}, MaxClock)
    \/ \E g \in BOOLEAN, a \in BOOLEAN : handle(g, a, MaxClock)
    \/ auto_complete_step(AutoCompleteFailures, MaxClock)
    \/ auto_complete_done
    \/ generate_step(BatchFailures, MaxClock)
    \/ generate_done
    \/ \E u \in Requesters, c \in PostedContents, h \in PostedHours :
          autocomplete_create(u, 1, c, h)

BatchRuns ==
    /\ WF_vars(auto_complete_step(AutoCompleteFailures, MaxClock))
    /\ WF_vars(auto_complete_done)
    /\ WF_vars(generate_step(BatchFailures, MaxClock))
    /\ WF_vars(generate_done)

SpecBatch == InitBatch /\ [][NextBatch]_vars /\ BatchRuns

\* ------------------------------------------------------------------ claims

\* The auto-complete loop has visited every selected rule and is about to return.
AutoCompleteScanEnds == pc = "ac" /\ queue = <<>>

\* The generation loop has visited every selected template.
GenerationScanEnds == pc = "gen" /\ queue = <<>>

\* The due a remote task carries has passed the rule's grace at the reading now.
PastDue(due, hours, now) == DueParses(due) /\ now >= DueInstant(due) + hours

\* A rule row that is terminal: inactive, with completed_at set.
Terminal(rule) == ~rule.is_active /\ rule.completed_at # NULL

\* C1 as stated: once the auto-complete scan has visited a rule whose remote
\* task carries a due date with now >= due + complete_after_hours and whose
\* remote calls succeeded, the task has been closed by the scan exactly once
\* and the rule is terminal.  The code does not do this for a due that holds
\* a 'T' and no zone suffix: the comparison with the aware now raises.
C1_OverdueRuleClosedOnce ==
    pc = "ac" =>
        \A k \in DOMAIN scanlog :
            LET rule == before[scanlog[k].id]
                task == remote[rule.todoist_task_id]
            IN  (/\ scanlog[k].fail = "none"
                 /\ PastDue(task.due, rule.complete_after_hours, scanlog[k].now))
                => /\ task.scan_closes = 1
                   /\ Terminal(rules[scanlog[k].id])

ClosesAlone(rule, entry) ==
    LET due == remote[rule.todoist_task_id].due
    IN  /\ entry.fail = "none"
        /\ due.kind \in {"date", "datetime_z"}
        /\ entry.now >= DueInstant(due) + rule.complete_after_hours

\* C3: in an auto-complete scan every selected rule is visited, in order,
\* whatever happened to the rules before it, and ends as its own inputs decide:
\* closed once and terminal, or exactly as it was when the scan started (a
\* rule whose visit failed is still active and uncompleted).
C3_RuleFailureIsolated ==
    pc = "ac" =>
        /\ Len(scanlog) <= Len(selected)
        /\ AutoCompleteScanEnds => Len(scanlog) = Len(selected)
        /\ \A k \in DOMAIN scanlog :
              LET id == scanlog[k].id
                  rule == before[id]
                  task == remote[rule.todoist_task_id]
              IN  /\ id = selected[k]
                  /\ IF ClosesAlone(rule, scanlog[k])
                     THEN task.scan_closes = 1 /\ Terminal(rules[id])
                     ELSE task.scan_closes = 0 /\ rules[id] = rule
                  /\ scanlog[k].outcome = "error"
                     => rules[id].is_active /\ rules[id].completed_at = NULL

\* C3's case: a scan ends in which a visit failed and a later visit closed.
C3_Witness ==
    /\ AutoCompleteScanEnds
    /\ \E j \in DOMAIN scanlog, k \in DOMAIN scanlog :
          /\ j < k
          /\ scanlog[j].outcome = "error"
          /\ scanlog[k].outcome = "complete"
          /\ Terminal(rules[scanlog[k].id])

\* What a visit does with its template, from the template's own inputs alone:
\* it generates when the template is eligible, both texts render and no call
\* fails.
GeneratesAlone(template, entry) ==
    /\ entry.fail = "none"
    /\ ShouldGenerate(template, entry.now)
    /\ ~FormatRaises(template.content_template)
    /\ ~FormatRaises(template.description_template)

\* C4: in a generation scan every selected template is visited, in order,
\* whatever happened to the templates before it, and ends as its own inputs
\* decide: generated from (a remote task and an audit row with the due date
\* and the text of this visit, last_generated stamped), or with its row exactly
\* as it was when the scan started.
C4_TemplateFailureIsolated ==
    pc = "gen" =>
        /\ Len(scanlog) <= Len(selected)
        /\ GenerationScanEnds => Len(scanlog) = Len(selected)
        /\ generated_count =
              Cardinality({k \in DOMAIN scanlog : GeneratesAlone(before[scanlog[k].id], scanlog[k])})
        /\ \A k \in DOMAIN scanlog :
              LET id == scanlog[k].id
                  template == before[id]
                  due_date == NextDueDate(template, scanlog[k].now)
                  task_content == Format(template.content_template, due_date)
              IN  /\ id = selected[k]
                  /\ IF GeneratesAlone(template, scanlog[k])
                     THEN /\ scanlog[k].outcome = "generated"
                          /\ templates[id].last_generated # NULL
                          /\ templates[id].last_generated >= scanlog[k].now
                          /\ \E g \in DOMAIN generated :
                                /\ generated[g].template = id
                                /\ generated[g].due_date = DateOf(due_date)
                                /\ generated[g].task_content = task_content
                                /\ remote[generated[g].todoist_task_id].content = task_content
                     ELSE /\ scanlog[k].outcome # "generated"
                          /\ templates[id] = template

\* C4's case: a scan ends in which a visit failed and a later visit generated.
C4_Witness ==
    /\ GenerationScanEnds
    /\ \E j \in DOMAIN scanlog, k \in DOMAIN scanlog :
          /\ j < k
          /\ scanlog[j].outcome = "error"
          /\ scanlog[k].outcome = "generated"
          /\ templates[scanlog[k].id].last_generated # NULL

\* The cadence offsets as the contract states them, in days.
StatedOffsetDays(frequency) ==
    CASE frequency = "daily" -> 1
      [] frequency = "weekly" -> 7
      [] frequency = "biweekly" -> 14
      [] frequency = "monthly" -> 30
      [] frequency = "yearly" -> 365

\* The template is due at the reading now: never generated from, or the
\* stated offset has elapsed since last_generated, the boundary included.
Due(template, now) ==
    \/ template.last_generated = NULL
    \/ now - template.last_generated >= StatedOffsetDays(template.frequency) * HoursPerDay

\* This step generates from template id: it adds its audit row.
GeneratesFrom(id) ==
    /\ Len(generated') = Len(generated) + 1
    /\ generated'[Len(generated')].template = id

\* This step is the scan's visit of template id, with both texts rendering
\* and no call failing.
VisitsCleanly(id) ==
    /\ pc = "gen"
    /\ ~FormatRaises(templates[id].content_template)
    /\ ~FormatRaises(templates[id].description_template)
    /\ Len(scanlog') = Len(scanlog) + 1
    /\ scanlog'[Len(scanlog')].id = id
    /\ scanlog'[Len(scanlog')].fail = "none"

\* C5 as stated: whichever path generates, a template is generated from if
\* and only if it is due, and never while its elapsed time is below the
\* offset.  The manual trigger generates whatever the elapsed time.
C5_GeneratedIffDue ==
    [][\A id \in DOMAIN templates :
          /\ GeneratesFrom(id) => Due(templates[id], clock)
          /\ VisitsCleanly(id) => (GeneratesFrom(id) <=> Due(templates[id], clock))]_vars

\* C5: in the scheduled scan an active template is generated from if and only
\* if it is due (last_generated null, or the offset of 1, 7, 14, 30 or 365
\* days elapsed, the boundary included); a template below its offset is
\* generated from only by the manual trigger, which asks for neither the
\* elapsed time nor is_active.
C5_ScanGeneratesIffDue ==
    [][\A id \in DOMAIN templates :
          /\ VisitsCleanly(id) =>
                /\ templates[id].is_active
                /\ GeneratesFrom(id) <=> Due(templates[id], clock)
          /\ (GeneratesFrom(id) /\ ~Due(templates[id], clock)) =>
                /\ pc = "idle"
                /\ last'.op = "template_generate"
          /\ (pc = "gen" /\ ~Due(templates[id], clock)) =>
                templates'[id] = templates[id]]_vars

\* C5's case: the scan has generated a second time from a template, at the
\* very hour its offset had elapsed since the first generation at hour 0.
C5_Witness ==
    /\ last.op = "generate"
    /\ last.outcome = "generated"
    /\ Len(generated) = 2
    /\ last.now = StatedOffsetDays(templates[last.id].frequency) * HoursPerDay
    /\ templates[last.id].last_generated >= last.now

\* C6 as stated: last_generated never regresses, never returns to null, and
\* right after a generation equals the now of that generation.  The code
\* reads the clock a second time for the stamp, after the remote call.
C6_LastGeneratedIsNow ==
    [][\A id \in DOMAIN templates :
          LET old == templates[id].last_generated
              new == templates'[id].last_generated
          IN  /\ old # NULL => new # NULL /\ new >= old
              /\ new # old => new = last'.now]_vars

\* C6: last_generated never regresses and never returns to null; it changes
\* only in a generation of that template, scheduled or manual, and then holds
\* the clock reading taken at the save, which is not before the generation's
\* now.
C6_LastGeneratedAdvances ==
    [][\A id \in DOMAIN templates :
          LET old == templates[id].last_generated
              new == templates'[id].last_generated
          IN  /\ old # NULL => new # NULL /\ new >= old
              /\ new # old => /\ last'.op \in {"generate", "template_generate"}
                              /\ last'.id = id
                              /\ last'.outcome = "generated"
                              /\ new = clock'
                              /\ new >= last'.now]_vars

\* C6's case: a generation has just moved a last_generated that was already
\* set, and the save came after the generation's now.
C6_Witness ==
    /\ last.outcome = "generated"
    /\ last.op \in {"generate", "template_generate"}
    /\ templates[last.id].last_generated = clock
    /\ clock > last.now
    /\ Cardinality({g \in DOMAIN generated : generated[g].template = last.id}) >= 2

\* C7 as stated: a rule whose completed_at is set is inactive, and neither
\* field changes again.  autocomplete_create on the task id of a completed
\* rule sets is_active and leaves completed_at.
C7_CompletedRuleTerminal ==
    [][\A id \in DOMAIN rules :
          rules[id].completed_at # NULL
          => /\ ~rules[id].is_active
             /\ rules'[id].is_active = rules[id].is_active
             /\ rules'[id].completed_at = rules[id].completed_at]_vars

\* The operations that mark as read: the model method behind the view and the
\* admin action, and the mark-all-read update.
MarkReadOps == {"notification_mark_read", "notification_mark_all_read", "admin_mark_as_read"}

\* C8: marking as read a notification that is already read changes nothing
\* of it, through mark_as_read and through mark-all-read alike: is_read stays
\* true and read_at stays the reading of the first marking, which is the
\* clock of the step that took the notification from unread to read.
C8_MarkAsReadIdempotent ==
    [][\A n \in DOMAIN notifications :
          /\ (notifications[n].is_read /\ last'.op \in MarkReadOps)
                => notifications'[n] = notifications[n]
          /\ (~notifications[n].is_read /\ notifications'[n].is_read)
                => /\ last'.op \in MarkReadOps
                   /\ notifications'[n].read_at = clock]_vars

\* C8's case: mark_as_read has just been called on a notification that had
\* been read at an earlier hour, and read_at still holds that hour.
C8_Witness ==
    /\ last.op = "notification_mark_read"
    /\ notifications[last.id].is_read
    /\ notifications[last.id].read_at # NULL
    /\ notifications[last.id].read_at < last.now

\* C9 as stated: over every operation on notifications, the admin actions
\* included, a read notification never becomes unread and its read_at never
\* changes.  The admin mark-as-unread action clears both.
C9_ReadForever ==
    [][\A n \in DOMAIN notifications :
          notifications[n].is_read
          => /\ notifications'[n].is_read
             /\ notifications'[n].read_at = notifications[n].read_at]_vars

\* C9: a read notification stays read, with its read_at, over mark_as_read,
\* mark-all-read and the admin mark-as-read action; only the admin
\* mark-as-unread action changes it, to unread with read_at null.
C9_ReadUntilAdminUnread ==
    [][\A n \in DOMAIN notifications :
          notifications[n].is_read
          => \/ notifications'[n] = notifications[n]
             \/ /\ last'.op = "admin_mark_as_unread"
                /\ notifications'[n] =
                      [notifications[n] EXCEPT !.is_read = FALSE, !.read_at = NULL]]_vars

\* C9's case: mark-all-read has just run for a user who had one notification
\* read at an earlier hour and one unread: the first kept its read_at.
C9_Witness ==
    /\ last.op = "notification_mark_all_read"
    /\ \E m \in DOMAIN notifications, n \in DOMAIN notifications :
          /\ notifications[m].user = notifications[n].user
          /\ notifications[m].is_read
          /\ notifications[n].is_read
          /\ notifications[m].read_at # NULL
          /\ notifications[m].read_at < last.now
          /\ notifications[n].read_at = last.now

\* The 'watcher_added' notifications a step creates.
NewWatcherAdded ==
    {k \in DOMAIN notifications' \ DOMAIN notifications :
        notifications'[k].notification_type = "watcher_added"}

\* C10: no two live TaskWatcher rows share a (task id, watcher) pair; no step
\* changes an existing row other than by deleting it; a 'watcher_added'
\* notification is created exactly in the step that adds the row of a pair
\* that had none, one notification for one row, addressed to the new watcher.
C10_DuplicateWatcherNoOp ==
    [][/\ \A i \in DOMAIN watchers', j \in DOMAIN watchers' :
             (/\ ~watchers'[i].deleted
              /\ ~watchers'[j].deleted
              /\ watchers'[i].todoist_task_id = watchers'[j].todoist_task_id
              /\ watchers'[i].watcher = watchers'[j].watcher) => i = j
       /\ \A i \in DOMAIN watchers :
             \/ watchers'[i] = watchers[i]
             \/ watchers'[i] = [watchers[i] EXCEPT !.deleted = TRUE]
       /\ Len(watchers') \in {Len(watchers), Len(watchers) + 1}
       /\ Len(watchers') = Len(watchers) <=> NewWatcherAdded = {}
       /\ \A k \in NewWatcherAdded :
             LET row == watchers'[Len(watchers')]
             IN  /\ NewWatcherAdded = {k}
                 /\ row.watcher = notifications'[k].user
                 /\ row.todoist_task_id = notifications'[k].todoist_task_id
                 /\ WatcherIndex(row.todoist_task_id, row.watcher) = 0]_vars

\* C10's case: watcher_add has just been asked for a pair that exists; there
\* is one row and one notification.
C10_Witness ==
    /\ last.op = "watcher_add"
    /\ last.outcome = "exists"
    /\ Len(watchers) = 1
    /\ ~watchers[1].deleted
    /\ watchers[1].todoist_task_id = last.id
    /\ Len(notifications) = 1
    /\ notifications[1].notification_type = "watcher_added"

\* This step is an invocation of handle: the command was not running, the
\* clock is not what moved, and the step reports under handle.
Invoked == pc = "idle" /\ clock' = clock /\ last'.op = "handle"

\* C11 as stated: the two mode flags exclude each other; an invocation with
\* auto-complete-only starts the auto-complete phase alone, one with
\* generate-only the generation phase alone, one with neither the
\* auto-complete phase, whose loop ends before the generation phase starts;
\* no invocation runs zero phases.  The parser takes both flags together, and
\* handle then runs neither phase.
C11_ModeFlagsExclusive ==
    [][/\ Invoked =>
             /\ ~(options'.generate_only /\ options'.auto_complete_only)
             /\ pc' = IF options'.generate_only THEN "gen" ELSE "ac"
       /\ (pc = "ac" /\ pc' # "ac") =>
             /\ queue = <<>>
             /\ pc' = IF options.auto_complete_only THEN "idle" ELSE "gen"
       /\ (pc # "gen" /\ pc' = "gen") =>
             \/ pc = "idle" /\ options'.generate_only
             \/ pc = "ac" /\ queue = <<>> /\ ~options.generate_only]_vars

\* C12: a batch invocation always reaches its end, whatever remote calls fail
\* and however the due dates are formed; at the end of each loop every
\* selected row has been visited once, in order; and the two counts start at
\* zero and go up by one exactly in the steps that close a remote task or
\* create one.
C12_BatchCompletes ==
    /\ (pc # "idle") ~> (pc = "idle" /\ last = Step("handle", 0, clock, "none", "done"))
    /\ [](pc # "idle" =>
            /\ Len(scanlog) + Len(queue) = Len(selected)
            /\ \A k \in DOMAIN scanlog : scanlog[k].id = selected[k]
            /\ \A j \in DOMAIN selected, k \in DOMAIN selected :
                  selected[j] = selected[k] => j = k)
    /\ [][IF Invoked
          THEN completed_count' = 0 /\ generated_count' = 0
          ELSE /\ completed_count' - completed_count =
                     Cardinality({t \in DOMAIN remote :
                         remote'[t].is_completed /\ ~remote[t].is_completed})
               /\ generated_count' - generated_count = Len(remote') - Len(remote)]_vars

\* C12's case: a batch that ran both phases has ended with a rule closed and
\* a task generated, having passed over a template that cannot render.
C12_Witness ==
    /\ pc = "idle"
    /\ last = Step("handle", 0, clock, "none", "done")
    /\ options = NoOptions
    /\ completed_count >= 1
    /\ generated_count >= 1
    /\ templates[2].last_generated = NULL

\* This step is a request to task_complete.
Completes == clock' = clock /\ last'.op = "task_complete"

\* The notifications a step creates.
NewNotifications == DOMAIN notifications' \ DOMAIN notifications

\* C13: a task_complete whose remote close succeeds creates one
\* 'task_completed' notification for every user with a live watcher row on
\* that task id with notify_on_complete set, and no other notification; one
\* whose close fails creates none; no other step creates a 'task_completed'
\* notification; existing notifications are left as they are.
C13_CompletionNotifiesWatchers ==
    [][/\ Completes =>
             /\ \A k \in DOMAIN notifications : notifications'[k] = notifications[k]
             /\ last'.fail # "none" => NewNotifications = {}
             /\ \A k \in NewNotifications :
                   /\ notifications'[k].notification_type = "task_completed"
                   /\ notifications'[k].todoist_task_id = last'.id
                   /\ ~notifications'[k].is_read
             /\ last'.fail = "none" =>
                   \A u \in Users :
                      Cardinality({k \in NewNotifications : notifications'[k].user = u}) =
                         IF \E i \in DOMAIN watchers :
                               /\ ~watchers[i].deleted
                               /\ watchers[i].todoist_task_id = last'.id
                               /\ watchers[i].watcher = u
                               /\ watchers[i].notify_on_complete
                         THEN 1 ELSE 0
       /\ (\E k \in NewNotifications :
              notifications'[k].notification_type = "task_completed") => Completes]_vars

\* C13's case: a task with two watchers, one of them with notify_on_complete
\* off, has just been completed, and one notification says so.
C13_Witness ==
    /\ last.op = "task_complete"
    /\ last.outcome = "completed"
    /\ \E i \in DOMAIN watchers, j \in DOMAIN watchers :
          /\ ~watchers[i].deleted /\ ~watchers[j].deleted
          /\ watchers[i].todoist_task_id = last.id
          /\ watchers[j].todoist_task_id = last.id
          /\ watchers[i].notify_on_complete
          /\ ~watchers[j].notify_on_complete
          /\ Cardinality({k \in DOMAIN notifications :
                notifications[k].notification_type = "task_completed"}) = 1
          /\ \E k \in DOMAIN notifications :
                /\ notifications[k].notification_type = "task_completed"
                /\ notifications[k].user = watchers[i].watcher

\* This step is a successful generation from template id.
Generated(id) == GeneratesFrom(id) /\ last'.outcome = "generated"

\* What one successful generation from template id leaves, with the spawned
\* rule owned by owner: one remote task due on the day now + offset with the
\* rendered texts, one audit row for it, a zero-grace rule if the template
\* asks for one, and last_generated at the reading of the save.
GeneratedAs(id, owner) ==
    LET template == templates[id]
        due_date == clock + StatedOffsetDays(template.frequency) * HoursPerDay
        task_content == Format(template.content_template, due_date)
        task_id == Len(remote) + 1
    IN  /\ remote' = Append(remote,
               [content |-> task_content,
                description |-> Format(template.description_template, due_date),
                due |-> [kind |-> "date", t |-> StrfDate(due_date)],
                is_completed |-> FALSE, scan_closes |-> 0])
        /\ generated' = Append(generated,
               [template |-> id, todoist_task_id |-> task_id,
                task_content |-> task_content, due_date |-> DateOf(due_date),
                is_completed |-> FALSE])
        /\ rules' =
               IF template.auto_complete
               THEN Append(rules,
                       [todoist_task_id |-> task_id, task_content |-> task_content,
                        complete_after_hours |-> 0, is_active |-> TRUE,
                        created_by |-> owner, completed_at |-> NULL])
               ELSE rules
        /\ templates' = [templates EXCEPT ![id].last_generated = clock']

\* C14 as stated: the manual trigger generates exactly when the scan would
\* (the template active and due) and with the same result, the owner of the
\* spawned rule included.  The manual trigger tests neither is_active nor the
\* elapsed time, and gives the rule to the requesting user.
C14_ManualSameAsScan ==
    [][\A id \in DOMAIN templates :
          Generated(id) =>
             /\ templates[id].is_active
             /\ Due(templates[id], clock)
             /\ GeneratedAs(id, templates[id].created_by)]_vars

\* C14: a successful generation leaves the same remote task, audit row, rule
\* and last_generated on both paths, except that the scan generates only from
\* active, due templates and gives the rule to the template's creator, while
\* the manual trigger generates from any template and gives the rule to the
\* requesting user.
C14_ManualSameBody ==
    [][\A id \in DOMAIN templates :
          Generated(id) =>
             IF pc = "gen"
             THEN /\ last'.op = "generate"
                  /\ templates[id].is_active
                  /\ Due(templates[id], clock)
                  /\ GeneratedAs(id, templates[id].created_by)
             ELSE /\ last'.op = "template_generate"
                  /\ \E user \in Requesters : GeneratedAs(id, user)]_vars

\* C14's case: the manual trigger has just generated from a paused template
\* and the rule it spawned belongs to the requester, not to the template's
\* creator.
C14_Witness ==
    /\ last.op = "template_generate"
    /\ last.outcome = "generated"
    /\ ~templates[last.id].is_active
    /\ \E r \in DOMAIN rules :
          /\ rules[r].todoist_task_id = Len(remote)
          /\ rules[r].created_by \in Requesters
          /\ rules[r].created_by # templates[last.id].created_by

\* An optional string that is given and not empty.
GivenStr(x) == x # None /\ x # Some("")

\* C15: the data create_task builds holds at most one of due_string and
\* due_date, due_string when it is given and non-empty, due_date when only it
\* is; priority exactly when it is above 1; description, project_id and
\* labels exactly when given and non-empty; each key with the value passed.
C15_CreateTaskPayload ==
    last.op = "create_task" =>
        LET a == last.id
            data == last.outcome
            has(k) == k \in DOMAIN data
        IN  /\ data.content = a.content
            /\ ~(has("due_string") /\ has("due_date"))
            /\ has("due_string") <=> GivenStr(a.due_string)
            /\ has("due_date") <=> (GivenStr(a.due_date) /\ ~GivenStr(a.due_string))
            /\ has("priority") <=> a.priority > 1
            /\ has("description") <=> GivenStr(a.description)
            /\ has("project_id") <=> GivenStr(a.project_id)
            /\ has("labels") <=> (a.labels # None /\ a.labels # Some(<<>>))
            /\ has("due_string") => data.due_string = a.due_string.value
            /\ has("due_date") => data.due_date = a.due_date.value
            /\ has("priority") => data.priority = a.priority
            /\ has("description") => data.description = a.description.value
            /\ has("project_id") => data.project_id = a.project_id.value
            /\ has("labels") => data.labels = a.labels.value

\* C15's case: create_task was given both dues and priority 1; the data
\* holds due_string and neither due_date nor priority.
C15_Witness ==
    /\ last.op = "create_task"
    /\ last.id.due_string = Some("tomorrow")
    /\ last.id.due_date = Some("2024-01-02")
    /\ last.id.priority = 1
    /\ "due_string" \in DOMAIN last.outcome
    /\ "due_date" \notin DOMAIN last.outcome
    /\ "priority" \notin DOMAIN last.outcome

\* A rendered text carries the date string date wherever its template has
\* {date}, and the template's own text wherever it has no placeholder.
RendersDate(text, tpl, date) ==
    /\ DOMAIN text = DOMAIN tpl
    /\ \A k \in DOMAIN tpl :
          /\ tpl[k] = "{date}" => text[k] = [text |-> "%Y-%m-%d", num |-> date]
          /\ tpl[k] \notin KnownFields => text[k] = [text |-> tpl[k], num |-> 0]

\* March 15th of the epoch year, as an instant and as the digits of its date.
MarchFifteenth == EpochYear * 10000 + 315

\* C16: in a generation the due date is now plus the stated offset; the
\* date string sent to the remote API is that day's, the date stored in the
\* audit row is that day, the rendered content and description carry that
\* same string for {date}, and the texts depend on nothing but the template
\* and that day.  'Report - {date}' with a due date on March 15th renders
\* 'Report - ' followed by that date.
C16_RenderingUsesDueDate ==
    [][/\ Format(<<"Report - ", "{date}">>, StrpDate(MarchFifteenth)) =
             <<[text |-> "Report - ", num |-> 0],
               [text |-> "%Y-%m-%d", num |-> MarchFifteenth]>>
       /\ \A id \in DOMAIN templates :
             Generated(id) =>
                LET template == templates[id]
                    due_date == clock + StatedOffsetDays(template.frequency) * HoursPerDay
                    task == remote'[Len(remote')]
                    row == generated'[Len(generated')]
                IN  /\ task.due.kind = "date"
                    /\ StrpDate(task.due.t) = row.due_date * HoursPerDay
                    /\ row.due_date = due_date \div HoursPerDay
                    /\ RendersDate(task.content, template.content_template, task.due.t)
                    /\ RendersDate(task.description, template.description_template,
                                   task.due.t)
                    /\ row.task_content = task.content
                    /\ task.content =
                          Format(template.content_template, StrpDate(task.due.t))]_vars

\* C16's case: a generation from a template with {date} in its content has
\* just run at an hour that is not a midnight; the content carries the date
\* string of the remote task's due.
C16_Witness ==
    /\ last.outcome = "generated"
    /\ last.now % HoursPerDay # 0
    /\ generated[Len(generated)].template = last.id
    /\ \E k \in DOMAIN templates[last.id].content_template :
          /\ templates[last.id].content_template[k] = "{date}"
          /\ remote[Len(remote)].content[k].num = remote[Len(remote)].due.t
    /\ StrpDate(remote[Len(remote)].due.t) = generated[Len(generated)].due_date * HoursPerDay

\* This step is the scan closing remote task t.
ScanCloses(t) == pc = "ac" /\ remote'[t].scan_closes = remote[t].scan_closes + 1

\* C17: the scan step that closes a rule's task leaves every GeneratedTask
\* row of that task id completed and every other row as it was; and the
\* scan completes a row only in the step in which it closes the row's task
\* and the rule of that task becomes terminal.
C17_GeneratedTaskFollowsRule ==
    [][/\ \A t \in DOMAIN remote :
             ScanCloses(t) =>
                /\ DOMAIN generated' = DOMAIN generated
                /\ \A g \in DOMAIN generated :
                      IF generated[g].todoist_task_id = t
                      THEN generated'[g] = [generated[g] EXCEPT !.is_completed = TRUE]
                      ELSE generated'[g] = generated[g]
       /\ \A g \in DOMAIN generated :
             (pc = "ac" /\ generated'[g].is_completed /\ ~generated[g].is_completed) =>
                /\ ScanCloses(generated[g].todoist_task_id)
                /\ \E id \in DOMAIN rules :
                      /\ rules[id].todoist_task_id = generated[g].todoist_task_id
                      /\ ~Terminal(rules[id])
                      /\ Terminal(rules'[id])]_vars

\* C17's case: the scan has just closed a generated task; its audit row is
\* completed and the audit row of another task is not.
C17_Witness ==
    /\ pc = "ac"
    /\ last.op = "auto_complete"
    /\ last.outcome = "complete"
    /\ Terminal(rules[last.id])
    /\ \E g \in DOMAIN generated, h \in DOMAIN generated :
          /\ generated[g].todoist_task_id = rules[last.id].todoist_task_id
          /\ generated[g].is_completed
          /\ generated[h].todoist_task_id # rules[last.id].todoist_task_id
          /\ ~generated[h].is_completed

\* The rules on task id t.
RulesOn(table, t) == {r \in DOMAIN table : table[r].todoist_task_id = t}

\* C18: a successful generation adds one remote task, one GeneratedTask row
\* holding the new task's id, and, exactly when the template's auto_complete
\* is set, one rule on that id, active, with no grace and completed_at null;
\* the rows that existed stay as they were.
C18_GenerationCreatesOneOfEach ==
    [][\A id \in DOMAIN templates :
          Generated(id) =>
             LET t == Len(remote) + 1
             IN  /\ Len(remote') = Len(remote) + 1
                 /\ \A k \in DOMAIN remote : remote'[k] = remote[k]
                 /\ \A g \in DOMAIN generated : generated'[g] = generated[g]
                 /\ generated'[Len(generated')].todoist_task_id = t
                 /\ generated'[Len(generated')].template = id
                 /\ \A r \in DOMAIN rules : rules'[r] = rules[r]
                 /\ RulesOn(rules, t) = {}
                 /\ IF templates[id].auto_complete
                    THEN /\ Len(rules') = Len(rules) + 1
                         /\ RulesOn(rules', t) = {Len(rules')}
                         /\ rules'[Len(rules')].is_active
                         /\ rules'[Len(rules')].complete_after_hours = 0
                         /\ rules'[Len(rules')].completed_at = NULL
                    ELSE rules' = rules]_vars

\* C18's case: a generation from a template without auto_complete has just
\* run and left no rule on its task, after one from a template with
\* auto_complete left a rule on its own.
C18_Witness ==
    /\ last.outcome = "generated"
    /\ last.op \in {"generate", "template_generate"}
    /\ ~templates[last.id].auto_complete
    /\ generated[Len(generated)].template = last.id
    /\ RulesOn(rules, generated[Len(generated)].todoist_task_id) = {}
    /\ \E g \in DOMAIN generated :
          /\ templates[generated[g].template].auto_complete
          /\ RulesOn(rules, generated[g].todoist_task_id) # {}

\* The two forms of due the remote API returns: a date, or a date-time with
\* or without a zone suffix.
AcceptedDueKinds == {"date", "datetime_z", "datetime_naive"}

\* C19 as stated: for a due in either form the visit compares due + grace
\* with the current time without raising: when no call fails its outcome is
\* never the error branch, and it closes exactly when the deadline has
\* passed.  A date-time without a zone suffix parses to a naive datetime, and
\* comparing it with the aware current time raises.
C19_BothDueFormsAccepted ==
    pc = "ac" =>
        \A k \in DOMAIN scanlog :
            LET rule == before[scanlog[k].id]
                due == remote[rule.todoist_task_id].due
            IN  (scanlog[k].fail = "none" /\ due.kind \in AcceptedDueKinds)
                => /\ scanlog[k].outcome # "error"
                   /\ scanlog[k].outcome = "complete"
                        <=> scanlog[k].now >= DueInstant(due) + rule.complete_after_hours

\* This step is an autocomplete_create request for the task id of the
\* existing rule id.
Resubmits(id) ==
    /\ pc = "idle"
    /\ clock' = clock
    /\ last'.op = "autocomplete_create"
    /\ last'.outcome = "reactivated"
    /\ last'.id = rules[id].todoist_task_id

GenerationFails(id) ==
    /\ clock' = clock
    /\ last'.op = IF pc = "gen" THEN "generate" ELSE "template_generate"
    /\ pc = "gen" => Len(scanlog') = Len(scanlog) + 1
    /\ last'.id = id
    /\ last'.outcome = "error"

\* The calls that raise after the remote task was created.
AfterCreate == {"gt_insert", "rule_insert", "save"}

\* C21: last_generated moves only in a step that has created the remote
\* task, inserted its GeneratedTask row and, when the template asks for one,
\* its rule; a generation that fails leaves the whole template table as it
\* was, keeps the remote task if the failure came after its creation, and
\* the template the scan found eligible stays eligible at every later hour;
\* and a clean visit of an eligible template creates a remote task whatever
\* tasks the remote side already holds.
C21_StampAfterAllInserts ==
    [][\A id \in DOMAIN templates :
          /\ templates'[id].last_generated # templates[id].last_generated =>
                /\ Len(remote') = Len(remote) + 1
                /\ GeneratesFrom(id)
                /\ generated'[Len(generated')].todoist_task_id = Len(remote')
                /\ templates[id].auto_complete =>
                      /\ Len(rules') = Len(rules) + 1
                      /\ rules'[Len(rules')].todoist_task_id = Len(remote')
          /\ GenerationFails(id) =>
                /\ templates' = templates
                /\ Len(remote') = Len(remote) + (IF last'.fail \in AfterCreate THEN 1 ELSE 0)
                /\ pc = "gen" =>
                      \A t \in clock .. MaxClock : ShouldGenerate(templates'[id], t)
          /\ (VisitsCleanly(id) /\ ShouldGenerate(templates[id], clock)) =>
                /\ Len(remote') = Len(remote) + 1
                /\ remote'[Len(remote')].content =
                      Format(templates[id].content_template, NextDueDate(templates[id], clock))]_vars

\* A generation failed after it had created the remote task, and the scan
\* has since generated from the same template: the remote side holds two
\* tasks with one content and one due date, and a single GeneratedTask row,
\* that of the second.
C21_Witness ==
    /\ last.op = "generate"
    /\ last.outcome = "generated"
    /\ Len(remote) = 2
    /\ remote[1].content = remote[2].content
    /\ remote[1].due = remote[2].due
    /\ Len(generated) = 1
    /\ generated[1].template = last.id
    /\ generated[1].todoist_task_id = 2
    /\ templates[last.id].last_generated # NULL

\* This step is the scan's visit of rule id in which no call fails.
VisitsRule(id) ==
    /\ pc = "ac"
    /\ Len(scanlog') = Len(scanlog) + 1
    /\ scanlog'[Len(scanlog')].id = id
    /\ scanlog'[Len(scanlog')].fail = "none"

\* C22: task_complete leaves every AutoCompleteRule, GeneratedTask and
\* template row as it was; an auto-complete phase that starts selects every
\* active rule with completed_at unset, whether or not its remote task is
\* completed already; and its visit of such a rule whose task is completed
\* and past due closes the task once more.
C22_UserCloseLeavesRule ==
    [][/\ (pc = "idle" /\ Completes) =>
             /\ rules' = rules
             /\ generated' = generated
             /\ templates' = templates
       /\ (Invoked /\ pc' = "ac") =>
             \A id \in DOMAIN rules :
                (rules[id].is_active /\ rules[id].completed_at = NULL)
                => \E k \in DOMAIN selected' : selected'[k] = id
       /\ \A id \in DOMAIN rules :
             LET t == rules[id].todoist_task_id
             IN  (/\ VisitsRule(id)
                  /\ remote[t].is_completed
                  /\ DueAware(remote[t].due)
                  /\ PastDue(remote[t].due, rules[id].complete_after_hours, clock))
                 => /\ ScanCloses(t)
                    /\ remote[t].scan_closes = 0
                    /\ Terminal(rules'[id])]_vars

\* A user has completed a generated task that has a rule: the task is
\* completed on the remote side by no close of the scan, its rule is still
\* active with completed_at unset, its GeneratedTask row is not completed,
\* and a scan started since has selected the rule and is about to visit it
\* past the task's deadline.
C22_Witness ==
    /\ pc = "ac"
    /\ queue # <<>>
    /\ LET id == Head(queue)
           t == rules[id].todoist_task_id
       IN  /\ remote[t].is_completed
           /\ remote[t].scan_closes = 0
           /\ rules[id].is_active
           /\ rules[id].completed_at = NULL
           /\ PastDue(remote[t].due, rules[id].complete_after_hours, clock)
           /\ \E g \in DOMAIN generated :
                 /\ generated[g].todoist_task_id = t
                 /\ ~generated[g].is_completed

\* This step is a mark-all-read request.
MarksAllRead ==
    /\ pc = "idle"
    /\ clock' = clock
    /\ last'.op = "notification_mark_all_read"

\* C23: a notification is read exactly when its read_at is set; and a
\* mark-all-read request stamps the unread notifications of one user, the
\* requesting one, and leaves every other row, the read rows of that user and
\* their read_at included, as it was.
C23_ReadIffReadAt ==
    /\ [](\A k \in DOMAIN notifications :
             notifications[k].is_read <=> notifications[k].read_at # NULL)
    /\ [][MarksAllRead =>
             /\ DOMAIN notifications' = DOMAIN notifications
             /\ \E u \in Users :
                   \A k \in DOMAIN notifications :
                      notifications'[k] =
                         IF notifications[k].user = u /\ ~notifications[k].is_read
                         THEN [notifications[k] EXCEPT !.is_read = TRUE, !.read_at = clock]
                         ELSE notifications[k]]_vars

\* A mark-all-read has just stamped one user's notification at the current
\* hour, next to a notification of another user that is still unread.
C23_Witness ==
    /\ last.op = "notification_mark_all_read"
    /\ clock = last.now
    /\ \E k \in DOMAIN notifications, j \in DOMAIN notifications :
          /\ notifications[k].is_read
          /\ notifications[k].read_at = clock
          /\ clock > 0
          /\ notifications[j].user # notifications[k].user
          /\ ~notifications[j].is_read
          /\ notifications[j].read_at = NULL

\* The users a TaskWatcher row names: who added it, and who watches.
Parties(watcher) == {watcher.added_by, watcher.watcher}

\* C24: a watcher_remove request of a user the row names deletes that row
\* and no other; a request of any other user is answered as forbidden and
\* leaves every TaskWatcher and Notification row as it was; and a row is
\* deleted in no step other than a request of one of the users it names.
C24_OnlyPartiesRemove ==
    [][\A id \in DOMAIN watchers :
          /\ \A u \in Users :
                watcher_remove(u, id) =>
                   IF u \in Parties(watchers[id])
                   THEN /\ last'.outcome = "removed"
                        /\ watchers' = [watchers EXCEPT ![id].deleted = TRUE]
                        /\ notifications' = notifications
                   ELSE /\ last'.outcome = "forbidden"
                        /\ watchers' = watchers
                        /\ notifications' = notifications
          /\ (~watchers[id].deleted /\ watchers'[id].deleted) =>
                \E u \in Parties(watchers[id]) : watcher_remove(u, id)]_vars

\* A user named by neither field of a live row has just asked for its
\* removal and was refused; the row is still there, next to a row that one
\* of its own users removed.
C24_Witness ==
    /\ last.op = "watcher_remove"
    /\ last.outcome = "forbidden"
    /\ last.id \in DOMAIN watchers
    /\ ~watchers[last.id].deleted
    /\ Users \ Parties(watchers[last.id]) # {}
    /\ \E other \in DOMAIN watchers : watchers[other].deleted

=============================================================================
